---- MODULE Spec2Model ----
(***************************************************************************)
(* Model of backend/server_control.py: the PID-file supervisor of the      *)
(* Hytale Server Manager backend (get_server_pid, start_server,            *)
(* stop_server, status_server, restart_server).                            *)
(*                                                                         *)
(* Every command line invocation of the script is one supervisor process   *)
(* (an element of Invs); it runs main(), which dispatches to one of the    *)
(* functions, and then exits.  The operating system is modelled by the     *)
(* process table procs and the record file PID_FILE by the variable file.  *)
(* Program locations are named after the source line they execute.         *)
(*                                                                         *)
(* Spec runs one command at a time; FairSpec adds that a running           *)
(* supervisor keeps taking steps; ConcSpec lets status checks overlap with *)
(* each other and with one start, stop or restart; ReadersSpec lets status *)
(* and stop overlap on a registry that holds a record; FaultSpec adds read *)
(* errors, processes of other users and supervisors ended from outside.    *)
(***************************************************************************)
EXTENDS Integers, Sequences, FiniteSets, TLC

\* ------------------------------------------------------------------ bounds
MaxPid == 2
NumInv == 2
\* commands issued in a run where commands overlap
MaxCommands == 3

\* ------------------------------------------------------- program constants
\* range(10) of the poll loop in stop_server
PollAttempts == 10
\* the value of a missing pid (Python's None); no process has this pid
None == 0
\* sys.platform == 'win32' : the model covers the Unix branches
win32 == FALSE

Pids == 9..(8 + MaxPid)
Invs == 1..NumInv

VARIABLES
    procs,     \* OS process table: pid -> [st, parent, owner]
    file,      \* PID_FILE: [exists, data]
    cmd,       \* per invocation: the command main() dispatches, or "idle"
    pc,        \* per invocation: program location
    stack,     \* per invocation: return locations of the active calls
    loc,       \* per invocation: local variables of the active functions
    hist,      \* per invocation: what the invocation has done (observation)
    last,      \* the function return performed by the latest step, if any
    prev,      \* the return of the command of the latest finished invocation
    launched,  \* TRUE once any Popen has succeeded (observation)
    rets,      \* per invocation: the returns of start_server and stop_server
               \* so far, in order (observation)
    started    \* commands issued so far, counted where commands overlap

vars == <<procs, file, cmd, pc, stack, loc, hist, last, prev, launched, rets,
          started>>

\* ------------------------------------------------------------- file content
Digits == <<"0", "1", "2", "3", "4", "5", "6", "7", "8", "9">>

NoFile == [exists |-> FALSE, data |-> <<>>]

FileWith(s) == [exists |-> TRUE, data |-> s]

\* str(process.pid): the decimal representation, most significant digit first
RECURSIVE str(_)
str(n) == IF n < 10 THEN <<Digits[n + 1]>>
          ELSE str(n \div 10) \o <<Digits[(n % 10) + 1]>>

IsDigit(c) == \E d \in 1..10 : Digits[d] = c

DigitVal(c) == (CHOOSE d \in 1..10 : Digits[d] = c) - 1

\* int(s) raises ValueError on an empty or non-decimal string
ValueError(s) == Len(s) = 0 \/ \E k \in 1..Len(s) : ~IsDigit(s[k])

RECURSIVE int(_)
int(s) == IF Len(s) = 0 THEN 0
          ELSE 10 * int(SubSeq(s, 1, Len(s) - 1)) + DigitVal(s[Len(s)])

\* ------------------------------------------------------------------ events
NoEvent == [inv |-> 0, fn |-> "", line |-> 0, val |-> "", pid |-> None]

Event(i, fn, line, val, p) ==
    [inv |-> i, fn |-> fn, line |-> line, val |-> val, pid |-> p]

NoSnap == [file |-> NoFile, live |-> {}]

InitLoc == [foreground |-> FALSE, use_go |-> FALSE, pid |-> None,
            stop_pid |-> None, process |-> None, n |-> 0, rv |-> None]

InitHist == [sent |-> <<>>, spawned |-> {}, interrupted |-> FALSE,
             collected |-> FALSE, probes |-> 0, snap |-> NoSnap,
             before |-> NoEvent, at_call |-> NoSnap, seen |-> NoFile,
             ioerror |-> FALSE, probed |-> ""]

Live == {p \in Pids : procs[p].st = "alive"}

FreeProc == [st |-> "free", parent |-> 0, owner |-> "self"]

Init ==
    /\ procs = [p \in Pids |-> FreeProc]
    /\ file = NoFile
    /\ cmd = [i \in Invs |-> "idle"]
    /\ pc = [i \in Invs |-> "idle"]
    /\ stack = [i \in Invs |-> <<>>]
    /\ loc = [i \in Invs |-> InitLoc]
    /\ hist = [i \in Invs |-> InitHist]
    /\ last = NoEvent
    /\ prev = NoEvent
    /\ launched = FALSE
    /\ rets = [i \in Invs |-> <<>>]
    /\ started = 0

\* ------------------------------------------------------- OS primitives
\* (mutant) the probe reports every pid as present
process_exists_always(p) == TRUE

\* the pid names a process (running, or exited and not yet waited for by its
\* parent)
Exists(p) == p \in Pids /\ procs[p].st # "free"

\* os.kill(pid, sig) does not raise OSError: the pid names a process
\* (ProcessLookupError otherwise) that the caller is allowed to signal
\* (PermissionError otherwise)
process_exists(p) == Exists(p) /\ procs[p].owner = "self"

\* PID_FILE.unlink() and PID_FILE.unlink(missing_ok=True): the path is gone
unlink(f) == NoFile

\* the state of a process after it has terminated: it stays in the process
\* table until its parent waits for it; a process whose parent has exited is
\* collected at once
Terminated(pr) == IF pr.st = "alive"
                  THEN (IF pr.parent = 0 THEN FreeProc
                        ELSE [pr EXCEPT !.st = "zombie"])
                  ELSE pr

\* ------------------------------------------------------- call and return
Call(i, entry, ret) ==
    /\ pc' = [pc EXCEPT ![i] = entry]
    /\ stack' = [stack EXCEPT ![i] = <<ret>> \o @]
    /\ last' = NoEvent
    /\ UNCHANGED <<prev, rets>>

\* a return of the function main() dispatched to is the command's outcome
Return(i, fn, line, val, p) ==
    /\ pc' = [pc EXCEPT ![i] = Head(stack[i])]
    /\ stack' = [stack EXCEPT ![i] = Tail(@)]
    /\ last' = Event(i, fn, line, val, p)
    /\ prev' = IF Head(stack[i]) = "exit" THEN Event(i, fn, line, val, p)
               ELSE prev
    /\ rets' = IF fn \in {"start_server", "stop_server"}
               THEN [rets EXCEPT ![i] = Append(@, <<fn, line>>)]
               ELSE rets

\* an exception no handler catches ends the supervisor with a traceback
Raise(i, fn, line) ==
    /\ pc' = [pc EXCEPT ![i] = "exit"]
    /\ stack' = [stack EXCEPT ![i] = <<>>]
    /\ last' = Event(i, fn, line, "raise", None)
    /\ prev' = Event(i, fn, line, "raise", None)
    /\ rets' = rets

Goto(i, l) ==
    /\ pc' = [pc EXCEPT ![i] = l]
    /\ last' = NoEvent
    /\ UNCHANGED <<stack, prev, rets>>

\* ------------------------------------------------------------ main()
Commands == {"start", "stop", "restart", "status"}

Entry(c) == CASE c = "start" -> "L48"
              [] c = "stop" -> "L129"
              [] c = "restart" -> "L189"
              [] c = "status" -> "L174"

\* a new invocation of the script: main() parses the flags and dispatches
main(i, c, fg, go) ==
    /\ cmd[i] = "idle"
    /\ cmd' = [cmd EXCEPT ![i] = c]
    /\ pc' = [pc EXCEPT ![i] = Entry(c)]
    /\ stack' = [stack EXCEPT ![i] = <<"exit">>]
    /\ c # "start" => ~fg /\ ~go
    /\ loc' = [loc EXCEPT ![i] = [InitLoc EXCEPT !.foreground = fg,
                                                 !.use_go = go]]
    /\ hist' = [hist EXCEPT ![i] =
                   [InitHist EXCEPT
                       !.before = IF c \in {"start", "stop"} THEN prev ELSE NoEvent,
                       !.at_call = IF c = "restart"
                                   THEN [file |-> file, live |-> Live]
                                   ELSE NoSnap]]
    /\ last' = NoEvent
    /\ UNCHANGED <<procs, file, prev, launched, rets>>

\* the supervisor process exits: its exited children are collected, its
\* running children live on without a parent, and its memory is gone
exit(i) ==
    /\ pc[i] = "exit"
    /\ cmd' = [cmd EXCEPT ![i] = "idle"]
    /\ pc' = [pc EXCEPT ![i] = "idle"]
    /\ procs' = [p \in Pids |->
                   IF procs[p].parent = i
                   THEN (IF procs[p].st = "alive"
                         THEN [procs[p] EXCEPT !.parent = 0]
                         ELSE FreeProc)
                   ELSE procs[p]]
    /\ loc' = [loc EXCEPT ![i] = InitLoc]
    /\ hist' = [hist EXCEPT ![i] = InitHist]
    /\ rets' = [rets EXCEPT ![i] = <<>>]
    /\ last' = NoEvent
    /\ UNCHANGED <<file, stack, prev, launched>>

\* --------------------------------------------------- get_server_pid()
\* line 24: if not PID_FILE.exists(): return None
get_server_pid_exists(i) ==
    /\ pc[i] = "L24"
    /\ IF ~file.exists
       THEN /\ Return(i, "get_server_pid", 25, "None", None)
            /\ loc' = [loc EXCEPT ![i].rv = None]
       ELSE /\ Goto(i, "L27")
            /\ loc' = loc
    /\ hist' = [hist EXCEPT ![i].seen = NoFile, ![i].ioerror = FALSE,
                            ![i].probed = ""]
    /\ UNCHANGED <<procs, file, cmd, launched>>

\* (mutant) the handler catches the parse failure only
except_37_ValueError_only(e) == e = "ValueError"

\* line 37: except (ValueError, IOError); IOError is OSError, the base class
\* of FileNotFoundError and PermissionError
except_37(e) == e \in {"ValueError", "OSError", "FileNotFoundError",
                        "PermissionError"}

\* the outcome of an exception raised inside the try block of lines 26-36
get_server_pid_except(i, e) ==
    /\ IF except_37(e)
       THEN Return(i, "get_server_pid", 38, "None", None)
       ELSE Raise(i, "get_server_pid", 37)
    /\ loc' = [loc EXCEPT ![i].rv = None]

\* lines 27-28: open, read, strip and parse; open raises FileNotFoundError
\* when the file has gone, int raises ValueError
get_server_pid_read(i) ==
    /\ pc[i] = "L27"
    /\ IF ~file.exists
       THEN get_server_pid_except(i, "FileNotFoundError")
       ELSE IF ValueError(file.data)
       THEN get_server_pid_except(i, "ValueError")
       ELSE /\ Goto(i, "L31")
            /\ loc' = [loc EXCEPT ![i].pid = int(file.data)]
    /\ hist' = [hist EXCEPT ![i].seen = file]
    /\ UNCHANGED <<procs, file, cmd, launched>>

\* line 27: open or read fail for another reason than a missing file (the
\* file is not readable, the device reports an error)
get_server_pid_read_fails(i) ==
    /\ pc[i] = "L27"
    /\ file.exists
    /\ get_server_pid_except(i, "PermissionError")
    /\ hist' = [hist EXCEPT ![i].ioerror = TRUE]
    /\ UNCHANGED <<procs, file, cmd, launched>>

\* lines 30-33: os.kill(pid, 0)
get_server_pid_probe(i) ==
    /\ pc[i] = "L31"
    /\ IF process_exists(loc[i].pid)
       THEN /\ Return(i, "get_server_pid", 32, "pid", loc[i].pid)
            /\ loc' = [loc EXCEPT ![i].rv = loc[i].pid]
       ELSE /\ Goto(i, "L35")
            /\ loc' = loc
    /\ hist' = [hist EXCEPT ![i].probed = procs[loc[i].pid].st]
    /\ UNCHANGED <<procs, file, cmd, launched>>

\* the stale record is removed (line 35)
stale_cleanup(f) == unlink(f)

\* lines 35-36: PID_FILE.unlink(), which raises FileNotFoundError when the
\* file has gone
get_server_pid_unlink(i) ==
    /\ pc[i] = "L35"
    /\ file' = stale_cleanup(file)
    /\ IF file.exists
       THEN /\ Return(i, "get_server_pid", 36, "None", None)
            /\ loc' = [loc EXCEPT ![i].rv = None]
       ELSE get_server_pid_except(i, "FileNotFoundError")
    /\ UNCHANGED <<procs, cmd, hist, launched>>

\* ----------------------------------------------------- status_server()
\* line 174: pid = get_server_pid()
status_server_call(i) ==
    /\ pc[i] = "L174"
    /\ Call(i, "L24", "L176")
    /\ hist' = [hist EXCEPT ![i].snap = [file |-> file, live |-> Live]]
    /\ UNCHANGED <<procs, file, cmd, loc, launched>>

\* lines 176-183: the printed status
status_server_report(i) ==
    /\ pc[i] = "L176"
    /\ IF loc[i].rv = None
       THEN Return(i, "status_server", 177, "STOPPED", None)
       ELSE Return(i, "status_server", 180, "RUNNING", loc[i].rv)
    /\ UNCHANGED <<procs, file, cmd, loc, hist, launched>>

\* ------------------------------------------------------- environment
\* a running process exits (on its own, or because of a signal it received)
ChildExit(p) ==
    /\ procs[p].st = "alive"
    /\ procs' = [procs EXCEPT ![p] = Terminated(@)]
    /\ last' = NoEvent
    /\ UNCHANGED <<file, cmd, pc, stack, loc, hist, prev, launched, rets>>

\* a pid that names no process is given to a process of another user, which
\* the supervisor is not allowed to signal
ForeignProcess(p) ==
    /\ procs[p].st = "free"
    /\ procs' = [procs EXCEPT ![p] = [st |-> "alive", parent |-> 0,
                                      owner |-> "other"]]
    /\ last' = NoEvent
    /\ UNCHANGED <<file, cmd, pc, stack, loc, hist, prev, launched, rets>>

\* the supervisor is ended from outside while it runs (SIGKILL, or a
\* KeyboardInterrupt where no handler is in place: anywhere but the wait of
\* line 82)
Abort(i) ==
    /\ pc[i] \notin {"idle", "exit", "L82"}
    /\ pc' = [pc EXCEPT ![i] = "exit"]
    /\ stack' = [stack EXCEPT ![i] = <<>>]
    /\ last' = NoEvent
    /\ UNCHANGED <<procs, file, cmd, loc, hist, prev, launched, rets>>

\* ------------------------------------------------------ start_server()
\* (mutant) the running check never refuses
is_server_running_never(r) == FALSE

\* lines 41-43: get_server_pid() is not None
is_server_running(r) == r # None

\* line 48: if is_server_running()
start_server_check(i) ==
    /\ pc[i] = "L48"
    /\ Call(i, "L24", "L48r")
    /\ hist' = [hist EXCEPT ![i].snap = [file |-> file, live |-> Live]]
    /\ UNCHANGED <<procs, file, cmd, loc, launched>>

start_server_checked(i) ==
    /\ pc[i] = "L48r"
    /\ IF is_server_running(loc[i].rv) THEN Goto(i, "L49") ELSE Goto(i, "L52")
    /\ UNCHANGED <<procs, file, cmd, loc, hist, launched>>

\* line 49: the message calls get_server_pid() a second time
start_server_already_msg(i) ==
    /\ pc[i] = "L49"
    /\ Call(i, "L24", "L50")
    /\ UNCHANGED <<procs, file, cmd, loc, hist, launched>>

\* line 50: return False
start_server_already(i) ==
    /\ pc[i] = "L50"
    /\ Return(i, "start_server", 50, "False", None)
    /\ UNCHANGED <<procs, file, cmd, loc, hist, launched>>

\* lines 52-61: the executable must exist unless started from source; whether
\* it does is the environment's choice
start_server_executable(i, exe_exists) ==
    /\ pc[i] = "L52"
    /\ IF ~loc[i].use_go /\ ~exe_exists
       THEN Return(i, "start_server", 56, "False", None)
       ELSE Goto(i, "L70")
    /\ UNCHANGED <<procs, file, cmd, loc, hist, launched>>

\* lines 70-74 and 92-98: subprocess.Popen succeeds and the child gets a pid
\* that names no process
Popen(i, p) ==
    /\ pc[i] = "L70"
    /\ procs[p].st = "free"
    /\ procs' = [procs EXCEPT ![p] = [st |-> "alive", parent |-> i,
                                      owner |-> "self"]]
    /\ loc' = [loc EXCEPT ![i].process = p]
    /\ hist' = [hist EXCEPT ![i].spawned = @ \cup {p}]
    /\ launched' = TRUE
    /\ Goto(i, "L77")
    /\ UNCHANGED <<file, cmd>>

\* subprocess.Popen raises (command missing, not executable, no resources)
Popen_raises(i) ==
    /\ pc[i] = "L70"
    /\ Goto(i, "L123")
    /\ UNCHANGED <<procs, file, cmd, loc, hist, launched>>

\* lines 77 and 101: open(PID_FILE, 'w') creates or truncates the file
start_server_open(i) ==
    /\ pc[i] = "L77"
    /\ file' = FileWith(<<>>)
    /\ Goto(i, "L78")
    /\ UNCHANGED <<procs, cmd, loc, hist, launched>>

\* lines 78 and 102: f.write(str(process.pid)) and the close that flushes it;
\* a file unlinked since the open stays unlinked
start_server_write(i) ==
    /\ pc[i] = "L78"
    /\ file' = IF file.exists THEN FileWith(str(loc[i].process)) ELSE file
    /\ Goto(i, IF loc[i].foreground THEN "L82" ELSE "L105")
    /\ UNCHANGED <<procs, cmd, loc, hist, launched>>

\* line 82: process.wait() returns once the child has exited, and collects it
start_server_wait(i) ==
    /\ pc[i] = "L82"
    /\ procs[loc[i].process].st = "zombie"
    /\ procs' = [procs EXCEPT ![loc[i].process] = FreeProc]
    /\ Goto(i, "L87")
    /\ UNCHANGED <<file, cmd, loc, hist, launched>>

\* (mutant) the interrupt handler does not call stop_server()
start_server_interrupt_pass(i, reaped) ==
    /\ pc[i] = "L82"
    /\ procs' = IF reaped /\ procs[loc[i].process].st = "zombie"
                THEN [procs EXCEPT ![loc[i].process] = FreeProc]
                ELSE procs
    /\ hist' = [hist EXCEPT ![i].interrupted = TRUE,
                            ![i].collected =
                                reaped /\ procs[loc[i].process].st = "zombie"]
    /\ Goto(i, "L87")
    /\ UNCHANGED <<file, cmd, loc, launched>>

\* lines 83-85: KeyboardInterrupt during the wait; stop_server() is called.
\* Popen.wait() lets a child that has exited be collected before it re-raises
\* the interrupt (reaped), or leaves it uncollected, depending on timing and the
\* interpreter's version.
start_server_interrupt(i, reaped) ==
    /\ pc[i] = "L82"
    /\ procs' = IF reaped /\ procs[loc[i].process].st = "zombie"
                THEN [procs EXCEPT ![loc[i].process] = FreeProc]
                ELSE procs
    /\ hist' = [hist EXCEPT ![i].interrupted = TRUE,
                            ![i].collected =
                                reaped /\ procs[loc[i].process].st = "zombie"]
    /\ Call(i, "L129", "L87")
    /\ UNCHANGED <<file, cmd, loc, launched>>

\* (mutant) the finally clause leaves the record
finally_clause_skipped(f) == f

\* lines 86-87: finally: PID_FILE.unlink(missing_ok=True)
finally_clause(f) == unlink(f)

\* lines 86-88
start_server_finally(i) ==
    /\ pc[i] = "L87"
    /\ file' = finally_clause(file)
    /\ Return(i, "start_server", 88, "True", loc[i].process)
    /\ UNCHANGED <<procs, cmd, loc, hist, launched>>

\* (mutant) the settle check takes every child for running
poll_is_none_always(p) == TRUE

\* line 107: process.poll() is None
poll_is_none(p) == procs[p].st = "alive"

\* lines 105-112: time.sleep(2), then the settle check; poll() collects a
\* child that has exited
start_server_settle(i) ==
    /\ pc[i] = "L105"
    /\ IF poll_is_none(loc[i].process)
       THEN /\ Return(i, "start_server", 112, "True", loc[i].process)
            /\ procs' = procs
       ELSE /\ Goto(i, "L118")
            /\ procs' = [procs EXCEPT ![loc[i].process] =
                            IF @.st = "zombie" THEN FreeProc ELSE @]
    /\ UNCHANGED <<file, cmd, loc, hist, launched>>

\* lines 114-119: the launch failed
start_server_failed(i) ==
    /\ pc[i] = "L118"
    /\ file' = unlink(file)
    /\ Return(i, "start_server", 119, "False", loc[i].process)
    /\ UNCHANGED <<procs, cmd, loc, hist, launched>>

\* lines 121-124: except Exception
start_server_except(i) ==
    /\ pc[i] = "L123"
    /\ file' = unlink(file)
    /\ Return(i, "start_server", 124, "False", None)
    /\ UNCHANGED <<procs, cmd, loc, hist, launched>>

\* ------------------------------------------------------- stop_server()
\* line 129: pid = get_server_pid()
stop_server_call(i) ==
    /\ pc[i] = "L129"
    /\ Call(i, "L24", "L131")
    /\ UNCHANGED <<procs, file, cmd, loc, hist, launched>>

\* (mutant) the not-running check never fires
not_running_never(r) == FALSE

\* line 131: if pid is None
not_running(r) == r = None

\* lines 131-135
stop_server_check(i) ==
    /\ pc[i] = "L131"
    /\ IF not_running(loc[i].rv)
       THEN /\ Return(i, "stop_server", 133, "False", None)
            /\ loc' = loc
       ELSE /\ Goto(i, "L144")
            /\ loc' = [loc EXCEPT ![i].stop_pid = loc[i].rv, ![i].n = 0]
    /\ UNCHANGED <<procs, file, cmd, hist, launched>>

\* line 144: os.kill(pid, signal.SIGTERM); it raises ProcessLookupError when
\* the pid names no process (caught at line 167, return False at line 169).
\* The signal asks the process to exit: when and whether it does is ChildExit.
stop_server_sigterm(i) ==
    /\ pc[i] = "L144"
    /\ ~win32
    /\ IF process_exists(loc[i].stop_pid)
       THEN /\ Goto(i, "L148")
            /\ hist' = [hist EXCEPT ![i].sent =
                           Append(@, <<"SIGTERM", loc[i].stop_pid>>)]
       ELSE /\ Return(i, "stop_server", 169, "False", loc[i].stop_pid)
            /\ hist' = hist
    /\ UNCHANGED <<procs, file, cmd, loc, launched>>

\* (mutant) the loop gives up after three iterations
poll_exhausted_early(n) == n >= 3

\* the for loop ran all its iterations without a break: the else clause runs
poll_exhausted(n) == n = PollAttempts

\* lines 147-152: one iteration of the poll loop: sleep, then probe
stop_server_poll(i) ==
    /\ pc[i] = "L148"
    /\ ~poll_exhausted(loc[i].n)
    /\ hist' = [hist EXCEPT ![i].probes = @ + 1]
    /\ IF process_exists(loc[i].stop_pid)
       THEN /\ loc' = [loc EXCEPT ![i].n = @ + 1]
            /\ Goto(i, "L148")
       ELSE /\ loc' = loc
            /\ Goto(i, "L163")
    /\ UNCHANGED <<procs, file, cmd, launched>>

\* (mutant) the escalation sends a signal the process survives
SIGKILL_survived(pr) == pr

\* the effect of signal.SIGKILL on its target: a running process is ended
SIGKILL(pr) == Terminated(pr)

\* lines 153-160: os.kill(pid, signal.SIGKILL); it raises ProcessLookupError
\* when the pid names no process
stop_server_sigkill(i) ==
    /\ pc[i] = "L148"
    /\ poll_exhausted(loc[i].n)
    /\ ~win32
    /\ IF process_exists(loc[i].stop_pid)
       THEN /\ Goto(i, "L163")
            /\ procs' = [procs EXCEPT ![loc[i].stop_pid] = SIGKILL(@)]
            /\ hist' = [hist EXCEPT ![i].sent =
                           Append(@, <<"SIGKILL", loc[i].stop_pid>>)]
       ELSE /\ Return(i, "stop_server", 169, "False", loc[i].stop_pid)
            /\ UNCHANGED <<procs, hist>>
    /\ UNCHANGED <<file, cmd, loc, launched>>

\* (mutant) stop leaves the record
clear_record_skipped(f) == f

\* line 163: PID_FILE.unlink(missing_ok=True)
clear_record(f) == unlink(f)

\* lines 162-165: clean up the PID file; return True
stop_server_cleanup(i) ==
    /\ pc[i] = "L163"
    /\ file' = clear_record(file)
    /\ Return(i, "stop_server", 165, "True", loc[i].stop_pid)
    /\ UNCHANGED <<procs, cmd, loc, hist, launched>>

\* ---------------------------------------------------- restart_server()
\* (mutant) restart_server goes to the start without stopping first
restart_server_stop_skipped(i) ==
    /\ pc[i] = "L189"
    /\ Goto(i, "L190")
    /\ UNCHANGED <<procs, file, cmd, loc, hist, launched>>

\* line 189: stop_server()
restart_server_stop(i) ==
    /\ pc[i] = "L189"
    /\ Call(i, "L129", "L190")
    /\ UNCHANGED <<procs, file, cmd, loc, hist, launched>>

\* (mutant) restart_server does not go on to start_server()
restart_server_start_skipped(i) ==
    /\ pc[i] = "L190"
    /\ Goto(i, "L192")
    /\ UNCHANGED <<procs, file, cmd, loc, hist, launched>>

\* lines 190-191: time.sleep(1); start_server() with its default arguments
restart_server_start(i) ==
    /\ pc[i] = "L190"
    /\ Call(i, "L48", "L192")
    /\ loc' = [loc EXCEPT ![i].foreground = FALSE, ![i].use_go = FALSE]
    /\ UNCHANGED <<procs, file, cmd, hist, launched>>

\* restart_server returns nothing
restart_server_return(i) ==
    /\ pc[i] = "L192"
    /\ Return(i, "restart_server", 191, "None", None)
    /\ UNCHANGED <<procs, file, cmd, loc, hist, launched>>

\* ------------------------------------------------------- specification
Idle == \A j \in Invs : cmd[j] = "idle"

Step(i) ==
    \/ get_server_pid_exists(i)
    \/ get_server_pid_read(i)
    \/ get_server_pid_probe(i)
    \/ get_server_pid_unlink(i)
    \/ status_server_call(i)
    \/ status_server_report(i)
    \/ start_server_check(i)
    \/ start_server_checked(i)
    \/ start_server_already_msg(i)
    \/ start_server_already(i)
    \/ \E e \in BOOLEAN : start_server_executable(i, e)
    \/ \E p \in Pids : Popen(i, p)
    \/ Popen_raises(i)
    \/ start_server_open(i)
    \/ start_server_write(i)
    \/ start_server_wait(i)
    \/ \E r \in BOOLEAN : start_server_interrupt(i, r)
    \/ start_server_finally(i)
    \/ start_server_settle(i)
    \/ start_server_failed(i)
    \/ start_server_except(i)
    \/ stop_server_call(i)
    \/ stop_server_check(i)
    \/ stop_server_sigterm(i)
    \/ stop_server_poll(i)
    \/ stop_server_sigkill(i)
    \/ stop_server_cleanup(i)
    \/ restart_server_stop(i)
    \/ restart_server_start(i)
    \/ restart_server_return(i)
    \/ exit(i)

\* the script is run one command at a time
Invoke ==
    /\ Idle
    /\ \E c \in Commands, fg \in BOOLEAN, go \in BOOLEAN :
          main(1, c, fg, go)

Next ==
    \/ Invoke /\ UNCHANGED started
    \/ (\E i \in Invs : Step(i)) /\ UNCHANGED started
    \/ (\E p \in Pids : ChildExit(p)) /\ UNCHANGED started

Spec == Init /\ [][Next]_vars

\* status checks run at any time, next to each other and next to the one
\* start, stop or restart that is in progress
InvokeConcurrently ==
    \E i \in Invs, c \in Commands, fg \in BOOLEAN, go \in BOOLEAN :
        /\ started < MaxCommands
        /\ started' = started + 1
        /\ \A j \in Invs : j < i => cmd[j] # "idle"
        /\ c = "status" \/ \A j \in Invs : cmd[j] \in {"idle", "status"}
        /\ main(i, c, fg, go)

ConcNext ==
    \/ InvokeConcurrently
    \/ (\E i \in Invs : Step(i)) /\ UNCHANGED started
    \/ (\E p \in Pids : ChildExit(p)) /\ UNCHANGED started

ConcSpec == Init /\ [][ConcNext]_vars

\* one command at a time, in an environment where reading the record can
\* fail, pids are reused by other users' processes and the supervisor can be
\* ended from outside
FaultNext ==
    \/ Next
    \/ (\E i \in Invs : get_server_pid_read_fails(i)) /\ UNCHANGED started
    \/ (\E p \in Pids : ForeignProcess(p)) /\ UNCHANGED started
    \/ (\E i \in Invs : Abort(i)) /\ UNCHANGED started

FaultSpec == Init /\ [][FaultNext]_vars

\* the registry as a background start that reported success leaves it: the
\* record names the launched process, which runs on without a parent or has
\* exited since
ReadersInit ==
    \E p \in Pids, running \in BOOLEAN :
        /\ procs = [q \in Pids |->
                       IF q = p /\ running
                       THEN [st |-> "alive", parent |-> 0, owner |-> "self"]
                       ELSE FreeProc]
        /\ file = FileWith(str(p))
        /\ cmd = [i \in Invs |-> "idle"]
        /\ pc = [i \in Invs |-> "idle"]
        /\ stack = [i \in Invs |-> <<>>]
        /\ loc = [i \in Invs |-> InitLoc]
        /\ hist = [i \in Invs |-> InitHist]
        /\ last = NoEvent
        /\ prev = Event(1, "start_server", 112, "True", p)
        /\ launched = TRUE
        /\ rets = [i \in Invs |-> <<>>]
        /\ started = 0

\* status is invoked at any time, stop while no other stop is running
InvokeReader ==
    \E i \in Invs, c \in {"status", "stop"} :
        /\ \A j \in Invs : j < i => cmd[j] # "idle"
        /\ c = "stop" => \A j \in Invs : cmd[j] # "stop"
        /\ main(i, c, FALSE, FALSE)

\* the steps of status and stop invocations
ReaderStep(i) ==
    \/ get_server_pid_exists(i)
    \/ get_server_pid_read(i)
    \/ get_server_pid_probe(i)
    \/ get_server_pid_unlink(i)
    \/ status_server_call(i)
    \/ status_server_report(i)
    \/ stop_server_call(i)
    \/ stop_server_check(i)
    \/ stop_server_sigterm(i)
    \/ stop_server_poll(i)
    \/ stop_server_sigkill(i)
    \/ stop_server_cleanup(i)
    \/ exit(i)

ReadersNext ==
    \/ InvokeReader /\ UNCHANGED started
    \/ (\E i \in Invs : ReaderStep(i)) /\ UNCHANGED started
    \/ (\E p \in Pids : ChildExit(p)) /\ UNCHANGED started

\* readers of the record (status) and its removers (stop, and the readers'
\* own stale-record cleanup) running concurrently on a registry that holds
\* a record
ReadersSpec == ReadersInit /\ [][ReadersNext]_vars

\* one command at a time, where a supervisor that can take a step
\* eventually takes one
FairSpec == Spec /\ \A i \in Invs : WF_vars(Step(i) /\ UNCHANGED started)

\* ------------------------------------------------------------- properties
\* the record holds a decimal pid
HoldsPid(f) == f.exists /\ ~ValueError(f.data)

\* the signals invocation i has sent
Sent(i) == {hist[i].sent[k] : k \in 1..Len(hist[i].sent)}

\* the latest step was a return of function fn by invocation i
Returned(i, fn) == last.inv = i /\ last.fn = fn

\* C1 (self-healing read): when status_server is called while the record file
\* holds an integer pid that names no live process, it reports STOPPED and
\* the record file does not exist when it returns.
C1_SelfHealingRead ==
    \A i \in Invs :
        (/\ Returned(i, "status_server")
         /\ HoldsPid(hist[i].snap.file)
         /\ int(hist[i].snap.file.data) \notin hist[i].snap.live)
        => (last.val = "STOPPED" /\ ~file.exists)

C1_Witness ==
    \E i \in Invs :
        /\ Returned(i, "status_server")
        /\ HoldsPid(hist[i].snap.file)
        /\ int(hist[i].snap.file.data) \notin hist[i].snap.live
        /\ last.val = "STOPPED"

\* C2 (no duplicate start): a start_server called while the record names a
\* running process, and which that process outlives, returns False as already
\* running (line 50), spawns no process and leaves the record as it was.
C2_NoDuplicateStart ==
    \A i \in Invs :
        (/\ Returned(i, "start_server")
         /\ HoldsPid(hist[i].snap.file)
         /\ int(hist[i].snap.file.data) \in hist[i].snap.live
         /\ int(hist[i].snap.file.data) \notin hist[i].spawned
         /\ procs[int(hist[i].snap.file.data)].st = "alive")
        => (/\ last.line = 50
            /\ last.val = "False"
            /\ hist[i].spawned = {}
            /\ file = hist[i].snap.file)

\* the second start follows a start that reported success
C2_Witness ==
    \E i \in Invs :
        /\ Returned(i, "start_server")
        /\ last.line = 50
        /\ hist[i].before.fn = "start_server"
        /\ hist[i].before.line = 112
        /\ file = FileWith(str(hist[i].before.pid))
        /\ procs[hist[i].before.pid].st = "alive"

\* C3 (stop clears the record unconditionally): whenever stop_server found a
\* live pid in the registry, the record file is absent when it returns, on
\* every path, the failure path included.
C3_StopClearsRecord ==
    \A i \in Invs :
        (Returned(i, "stop_server") /\ last.line # 133) => ~file.exists

\* C4 (escalation bound): when all PollAttempts probes of stop_server found the
\* process present, SIGKILL is sent after SIGTERM before stop_server reports
\* success, and the process is not running when stop_server returns (at most
\* it is the exited, not yet collected child of this very supervisor).
C4_EscalationBound ==
    \A i \in Invs :
        (Returned(i, "stop_server") /\ hist[i].probes = PollAttempts
                                    /\ loc[i].n = PollAttempts)
        => (/\ procs[loc[i].stop_pid].st # "alive"
            /\ procs[loc[i].stop_pid].st = "zombie"
                  => procs[loc[i].stop_pid].parent = i
            /\ last.line = 165
                  => hist[i].sent = <<<<"SIGTERM", loc[i].stop_pid>>,
                                      <<"SIGKILL", loc[i].stop_pid>>>>)

\* a stop command has forced the end of a process launched by an earlier start
C4_Witness ==
    \E i \in Invs :
        /\ Returned(i, "stop_server")
        /\ cmd[i] = "stop"
        /\ last.line = 165
        /\ loc[i].n = PollAttempts
        /\ <<"SIGKILL", loc[i].stop_pid>> \in Sent(i)
        /\ ~process_exists(loc[i].stop_pid)

\* C5 as stated (foreground cancellation): whenever a foreground start_server
\* was interrupted during its wait, SIGTERM has been sent to the child's pid
\* when start_server returns, and the child is not running.
C5_InterruptSendsSigterm ==
    \A i \in Invs :
        (Returned(i, "start_server") /\ hist[i].interrupted)
        => (/\ <<"SIGTERM", loc[i].process>> \in Sent(i)
            /\ procs[loc[i].process].st # "alive")

\* C5 as amended: whenever a foreground start_server was interrupted during
\* its wait, the child is not running when start_server returns, and SIGTERM
\* has been sent to the child's pid unless the interrupted wait had already
\* collected the exited child (then nothing is signalled).
C5_InterruptStopsChild ==
    \A i \in Invs :
        (Returned(i, "start_server") /\ hist[i].interrupted)
        => (/\ procs[loc[i].process].st # "alive"
            /\ last.line = 88
            /\ IF hist[i].collected
               THEN hist[i].sent = <<>>
               ELSE <<"SIGTERM", loc[i].process>> \in Sent(i))

\* the interrupted child was still running and had to be stopped
C5_Witness ==
    \E i \in Invs :
        /\ Returned(i, "start_server")
        /\ hist[i].interrupted
        /\ ~hist[i].collected
        /\ hist[i].sent = <<<<"SIGTERM", loc[i].process>>,
                            <<"SIGKILL", loc[i].process>>>>
        /\ procs[loc[i].process].st = "zombie"

\* C6 (foreground scoped record): when a foreground start_server that reached
\* the launch returns (child exited, wait interrupted, or spawn failed), the
\* record file is absent.
C6_ForegroundScopedRecord ==
    \A i \in Invs :
        (Returned(i, "start_server") /\ loc[i].foreground
                                     /\ last.line \notin {50, 56})
        => (~file.exists /\ last.line \in {88, 124})

\* the child exited by itself and the wait returned normally
C6_Witness ==
    \E i \in Invs :
        /\ Returned(i, "start_server")
        /\ loc[i].foreground
        /\ last.line = 88
        /\ ~hist[i].interrupted
        /\ hist[i].spawned # {}
        /\ ~file.exists

\* a background start_server is past its running check and has not returned
StartingInBackground(i) ==
    /\ cmd[i] \in {"start", "restart"}
    /\ ~loc[i].foreground
    /\ pc[i] \in {"L52", "L70", "L77", "L78", "L105", "L118", "L123"}

\* what C7 as stated and as amended share: the record holds the child's pid
\* from a background start's report of success until the next command, it
\* stays in place while stop_server signals and polls, and there is no record
\* once a stop has reported success.
RecordAfterStartAndStop ==
    /\ \A i \in Invs :
          pc[i] \in {"L144", "L148", "L163"}
          => file = FileWith(str(loc[i].stop_pid))
    /\ \A i \in Invs :
          (Returned(i, "start_server") /\ last.line = 112)
          => file = FileWith(str(loc[i].process))
    /\ (Idle /\ prev.fn = "start_server" /\ prev.line = 112)
          => file = FileWith(str(prev.pid))
    /\ \A i \in Invs :
          (Returned(i, "stop_server") /\ last.line = 165) => ~file.exists
    /\ (Idle /\ prev.fn = "stop_server" /\ prev.line = 165) => ~file.exists

C8_BackgroundSettle ==
    \A i \in Invs :
        (Returned(i, "start_server") /\ ~loc[i].foreground
                                     /\ last.line \notin {50, 56, 124})
        => IF procs[loc[i].process].st = "alive"
           THEN /\ last.line = 112
                /\ last.val = "True"
                /\ HoldsPid(file)
                /\ int(file.data) = loc[i].process
           ELSE /\ last.line = 119
                /\ last.val = "False"
                /\ ~file.exists

\* the child exited within the grace interval
C8_Witness ==
    \E i \in Invs :
        /\ Returned(i, "start_server")
        /\ ~loc[i].foreground
        /\ last.line = 119
        /\ hist[i].spawned = {loc[i].process}
        /\ ~file.exists

\* C9 (no stale record after a failure): when start_server or stop_server
\* (called directly or by restart_server) returns failure, the record file is
\* absent or holds the pid of an existing process.
C9_NoStaleRecordAfterFailure ==
    \A i \in Invs :
        (/\ Returned(i, "start_server") \/ Returned(i, "stop_server")
         /\ last.val = "False")
        => (~file.exists \/ (HoldsPid(file) /\ process_exists(int(file.data))))

\* C10 (idempotent stop): as long as no process was ever launched, every
\* stop_server call returns the not-running result (False, line 133), has
\* sent no signal, and leaves the record file absent.
C10_IdempotentStop ==
    \A i \in Invs :
        (Returned(i, "stop_server") /\ ~launched)
        => (/\ last.line = 133
            /\ last.val = "False"
            /\ hist[i].sent = <<>>
            /\ ~file.exists)

\* the second of two consecutive stop commands
C10_Witness ==
    \E i \in Invs :
        /\ Returned(i, "stop_server")
        /\ cmd[i] = "stop"
        /\ ~launched
        /\ hist[i].before.fn = "stop_server"
        /\ hist[i].before.line = 133
        /\ last.line = 133

\* when invocation i was called the record did not name a running process
NoManagedAtCall(i) ==
    ~(/\ HoldsPid(hist[i].at_call.file)
      /\ int(hist[i].at_call.file.data) \in hist[i].at_call.live)

\* C11 as stated (NotRunning on restart): when restart is requested while no
\* live managed process exists, it is reported as a warning and returns
\* without mutating state: no process is launched, no record file is created.
C11_RestartIsNoOp ==
    \A i \in Invs :
        (Returned(i, "restart_server") /\ NoManagedAtCall(i))
        => (/\ rets[i][1] = <<"stop_server", 133>>
            /\ hist[i].spawned = {}
            /\ ~file.exists)

\* C11 as amended: when restart is requested while no live managed process
\* exists, its stop step returns the not-running warning (False, line 133)
\* and sends no signal; restart_server then goes on to start_server, which is
\* not refused as already running and, when it reports success, has launched
\* a process and created the record file holding its pid.
C11_RestartStartsAnyway ==
    \A i \in Invs :
        (cmd[i] = "restart" /\ NoManagedAtCall(i))
        => (/\ Len(rets[i]) >= 1
                 => (rets[i][1] = <<"stop_server", 133>> /\ hist[i].sent = <<>>)
            /\ Returned(i, "restart_server")
                 => (/\ Len(rets[i]) = 2
                     /\ rets[i][2][1] = "start_server"
                     /\ rets[i][2][2] \in {56, 112, 119, 124}
                     /\ rets[i][2][2] = 112
                          => (/\ hist[i].spawned = {loc[i].process}
                              /\ file = FileWith(str(loc[i].process)))))

\* a restart with nothing running has launched the server
C11_Witness ==
    \E i \in Invs :
        /\ Returned(i, "restart_server")
        /\ NoManagedAtCall(i)
        /\ rets[i] = <<<<"stop_server", 133>>, <<"start_server", 112>>>>
        /\ file.exists

\* C12 (interleaving safety): no step of an invocation removes or overwrites
\* a record that names a live process launched by a different invocation,
\* unless that invocation is a stop aimed at that process.
C12_RecordOfLiveProcessKept ==
    [][\A i \in Invs, p \in Pids :
          (/\ pc'[i] # pc[i]
           /\ file = FileWith(str(p))
           /\ procs[p].st = "alive"
           /\ procs[p].owner = "self"
           /\ p \notin hist[i].spawned
           /\ loc[i].stop_pid # p)
          => file' = file]_vars

\* C14 (atomic record write): what get_server_pid reads from the record file
\* is a complete decimal pid whenever the file is there.
C14_NoPartialRecordRead ==
    \A i \in Invs : hist[i].seen.exists => ~ValueError(hist[i].seen.data)

\* C13 (no duplicate instances): with commands run one at a time, at most
\* one process launched by start_server is alive at any moment.
C13_AtMostOneInstance == Cardinality(Live) <= 1

\* a restart has stopped the running server and launched its successor, which
\* is the one process alive
C13_Witness ==
    \E i \in Invs :
        /\ Returned(i, "restart_server")
        /\ rets[i] = <<<<"stop_server", 165>>, <<"start_server", 112>>>>
        /\ Live = {loc[i].process}

\* C15 (I/O failure is not silent): a get_server_pid whose read of the record
\* file failed with an I/O error other than the file not existing ends with
\* an error raised to its caller, not with the result None.
C15_ReadErrorSurfaces ==
    \A i \in Invs :
        (Returned(i, "get_server_pid") /\ hist[i].ioerror)
        => last.val = "raise"

\* C17 (read of a live record is effect-free): a get_server_pid whose probe
\* was made while the recorded pid named an existing process returns that
\* pid and leaves the record file as it read it.
C17_LiveRecordKept ==
    \A i \in Invs :
        (Returned(i, "get_server_pid") /\ hist[i].probed \in {"alive", "zombie"})
        => (/\ last.val = "pid"
            /\ last.pid = int(hist[i].seen.data)
            /\ file = hist[i].seen)

\* C20 (record existence matches belief): when get_server_pid or
\* status_server returns while no other invocation is in progress, the
\* record file exists exactly if the call reported a running pid.
C20_RecordMatchesBelief ==
    \A i \in Invs :
        (/\ Returned(i, "get_server_pid") \/ Returned(i, "status_server")
         /\ \A j \in Invs \ {i} : cmd[j] = "idle")
        => (file.exists <=> last.val \in {"pid", "RUNNING"})

\* every state ReadersSpec starts from is a state of the sequential program
ReadersInitUnreached == ~ReadersInit

\* C16 (concurrent readers tolerate disappearance): with get_server_pid calls
\* interleaved with each other and with removals of the record file, every
\* call returns None or the pid of a process alive when it was probed, and
\* none raises.
C16_ReadersTolerateRemoval ==
    \A i \in Invs :
        Returned(i, "get_server_pid")
        => (/\ last.val \in {"None", "pid"}
            /\ last.val = "pid" => last.pid \in Live)

\* two readers found the record stale, one removed it and the other's unlink
\* found it gone
C16_Witness ==
    \E i \in Invs, j \in Invs :
        /\ i # j
        /\ Returned(i, "get_server_pid")
        /\ last.line = 38
        /\ hist[i].probed = "free"
        /\ hist[j].probed = "free"

\* invocation i is inside the start_server call of restart_server
InRestartStart(i) ==
    /\ cmd[i] = "restart"
    /\ \E k \in 1..Len(stack[i]) : stack[i][k] = "L192"

\* C18 (restart ordering and mode): while restart_server's start_server
\* runs, from its already-running check on, stop_server has returned and is
\* the only call made before; that start is in background mode and so never
\* returns from the foreground branch (line 88).
C18_RestartStopsThenStartsInBackground ==
    \A i \in Invs :
        /\ InRestartStart(i)
             => (/\ Len(rets[i]) = 1
                 /\ rets[i][1][1] = "stop_server"
                 /\ ~loc[i].foreground
                 /\ pc[i] \notin {"L82", "L87"})
        /\ (cmd[i] = "restart" /\ Returned(i, "start_server"))
             => (/\ Len(rets[i]) = 2
                 /\ rets[i][1][1] = "stop_server"
                 /\ last.line # 88)

\* the restart has stopped a running server and is at start_server's
\* already-running check
C18_Witness ==
    \E i \in Invs :
        /\ InRestartStart(i)
        /\ pc[i] = "L48"
        /\ rets[i] = <<<<"stop_server", 165>>>>

\* invocation i is inside a stop_server call
InStop(i) ==
    \/ pc[i] \in {"L129", "L131", "L144", "L148", "L163"}
    \/ \E k \in 1..Len(stack[i]) : stack[i][k] = "L131"

\* the escalation order of one stop_server call
EscalationOrder(i) ==
    /\ hist[i].probes <= PollAttempts
    /\ loc[i].n <= hist[i].probes
    /\ <<"SIGKILL", loc[i].stop_pid>> \in Sent(i)
         => (/\ hist[i].sent = <<<<"SIGTERM", loc[i].stop_pid>>,
                                 <<"SIGKILL", loc[i].stop_pid>>>>
             /\ hist[i].probes = PollAttempts
             /\ loc[i].n = PollAttempts)
    /\ hist[i].probes > 0 => hist[i].sent[1] = <<"SIGTERM", loc[i].stop_pid>>
    /\ loc[i].n < hist[i].probes
         => (/\ loc[i].n = hist[i].probes - 1
             /\ pc[i] # "L148"
             /\ Len(hist[i].sent) = 1)

\* C19 (escalation ordering): SIGKILL is sent only after SIGTERM and after
\* PollAttempts probes that each found the process present; a probe that
\* finds it absent ends the polling and no SIGKILL follows; stop_server makes
\* at most PollAttempts probes, and every stop_server call comes to an end.
C19_EscalationOrderAndTermination ==
    /\ [](\A i \in Invs : EscalationOrder(i))
    /\ \A i \in Invs : InStop(i) ~> ~InStop(i)

\* all probes found the process present and the forced request has been sent
C19_Witness ==
    \E i \in Invs :
        /\ pc[i] = "L163"
        /\ hist[i].probes = PollAttempts
        /\ Len(hist[i].sent) = 2

====
